---- MODULE Spec2Model ----
(***************************************************************************)
(* Model of the VR-Metadata-Inserter service (src/app.py) and of its test  *)
(* tracker (src/test_manager.py).                                          *)
(*                                                                         *)
(* Text is a sequence of one-character strings, so that the string         *)
(* functions of the program (strip, rstrip, split, startswith, the         *)
(* os.path functions) are computed character by character.  os.path is     *)
(* modelled as posixpath: "/" is the only directory separator and "\" is   *)
(* an ordinary character of a name.                                        *)
(***************************************************************************)
EXTENDS Integers, Sequences, FiniteSets, TLC

VARIABLES
    \* ---- name builder (api_preview) ----
    original,       \* the file id of the preview request
    pattern,        \* the pattern of the request
    preview,        \* new names of successive previews, each fed the previous one
    built,          \* <<file_name, new_file_name>> of the last build_new_name call
    bpc,            \* "idle" until SpecBuild has drawn its request
    \* ---- convention parser (parse_naming_conventions) ----
    conventions,    \* dict: canonical section name -> list of tokens
    current_section,\* the section pattern lines are attached to
    nread,          \* lines of the file consumed so far
    lastHeader,     \* history: the header line consumed last (<<>>: none yet)
    expected,       \* history: <<canonical name, token>> pairs the lines read call for
    dupOffered,     \* history: a token was offered to a section that already held it
    ppc,            \* "loop" | "done"
    table,          \* the returned table (after the final sort)
    \* ---- export and browsing (api_export, api_files) ----
    fs,             \* the file system: absolute path (sequence of names) -> kind of node
    request,        \* the request served last (<<>>: none yet)
    response,       \* its response
    fs0,            \* history: the file system when the request arrived
    copied,         \* history: where the sources that api_export copied really are
    listed,         \* history: where the directory that api_files listed really is
    \* ---- test tracker (test_manager.py) ----
    tracker,        \* contents of test_tracker.json (<<>>: the file is absent)
    lastCall,       \* the tracker function called last: "add", "update", "next"
    returned,       \* its return value
    before,         \* history: the test numbers recorded before that call
    ncalls          \* tracker calls made so far

vars == <<original, pattern, preview, built, bpc,
          conventions, current_section, nread, lastHeader, expected, dupOffered, ppc, table,
          fs, request, response, fs0, copied, listed, tracker, lastCall, returned, before, ncalls>>

buildVars == <<original, pattern, preview, built, bpc>>
parseVars == <<conventions, current_section, nread, lastHeader, expected, dupOffered, ppc, table>>
fsVars == <<fs, request, response, fs0, copied, listed>>
trackerVars == <<tracker, lastCall, returned, before, ncalls>>

(***************************************************************************)
(* Bounds of the model.                                                    *)
(***************************************************************************)
MaxPathLen == 3
MaxPatLen == 2
MaxApply == 2
MaxLines == 4
MaxFiles == 2
MaxSubdirLen == 5
MaxCalls == 4

(***************************************************************************)
(* Strings.                                                                *)
(***************************************************************************)
Str(alphabet, n) == UNION {[1..k -> alphabet] : k \in 0..n}

\* str.rfind(c), 1-based; 0 when c does not occur (Python: -1)
RFind(s, c) ==
    IF \E i \in 1..Len(s) : s[i] = c
    THEN CHOOSE i \in 1..Len(s) : s[i] = c /\ \A j \in (i+1)..Len(s) : s[j] # c
    ELSE 0

\* p in s
Contains(s, p) ==
    \E i \in 0..(Len(s) - Len(p)) : SubSeq(s, i + 1, i + Len(p)) = p

\* s.startswith(p)
StartsWith(s, p) == Len(p) <= Len(s) /\ SubSeq(s, 1, Len(p)) = p

\* s.endswith(p)
EndsWith(s, p) == Len(p) <= Len(s) /\ SubSeq(s, Len(s) - Len(p) + 1, Len(s)) = p

HasChar(s, c) == \E i \in 1..Len(s) : s[i] = c

\* s.rstrip(chars)
RECURSIVE RStrip(_, _)
RStrip(s, chars) ==
    IF s # <<>> /\ s[Len(s)] \in chars THEN RStrip(SubSeq(s, 1, Len(s) - 1), chars) ELSE s

\* s.lstrip(chars)
RECURSIVE LStrip(_, _)
LStrip(s, chars) ==
    IF s # <<>> /\ s[1] \in chars THEN LStrip(Tail(s), chars) ELSE s

(***************************************************************************)
(* os.path (posixpath), as called by app.py.                               *)
(***************************************************************************)
\* os.path.splitext: the extension starts at the last "." of the last
\* component, unless only dots precede it there
splitext(p) ==
    LET sepIndex == RFind(p, "/")
        dotIndex == RFind(p, ".")
    IN  IF dotIndex > sepIndex
           /\ \E k \in (sepIndex + 1)..(dotIndex - 1) : p[k] # "."
        THEN <<SubSeq(p, 1, dotIndex - 1), SubSeq(p, dotIndex, Len(p))>>
        ELSE <<p, <<>>>>

\* os.path.dirname
dirname(p) ==
    LET head == SubSeq(p, 1, RFind(p, "/"))
    IN  IF head # <<>> /\ \E i \in 1..Len(head) : head[i] # "/"
        THEN RStrip(head, {"/"})
        ELSE head

\* os.path.basename
basename(p) == SubSeq(p, RFind(p, "/") + 1, Len(p))

\* os.path.join(a, b)
join(a, b) ==
    IF StartsWith(b, <<"/">>) THEN b
    ELSE IF a = <<>> \/ EndsWith(a, <<"/">>) THEN a \o b
    ELSE a \o <<"/">> \o b

(***************************************************************************)
(* NameBuilder.                                                            *)
(***************************************************************************)
\* a slip: the pattern is appended whether or not the stem already holds it
build_new_name_always(original_name, pat) ==
    LET se == splitext(original_name)
    IN  se[1] \o pat \o se[2]

build_new_name(original_name, pat) ==
    LET se == splitext(original_name)
    IN  IF Contains(se[1], pat) THEN se[1] \o se[2] ELSE se[1] \o pat \o se[2]

\* the name given to build_new_name by the loop body of api_preview / api_export
FileNameOf(f) ==
    IF HasChar(f, "/") \/ HasChar(f, "\\") THEN basename(f) ELSE f

\* the loop body of api_preview and api_export: the new name of file id f
NewName(f, pat) ==
    IF HasChar(f, "/") \/ HasChar(f, "\\")
    THEN join(dirname(f), build_new_name(basename(f), pat))
    ELSE build_new_name(f, pat)

PathChars == {"a", "_", ".", "/", "\\"}
PatChars == {"a", "_", "."}

ParseIdle ==
    /\ conventions = <<>> /\ current_section = <<>> /\ nread = 0 /\ lastHeader = <<>>
    /\ expected = {} /\ dupOffered = FALSE /\ ppc = "idle" /\ table = <<>>
FsIdle ==
    /\ fs = <<>> /\ request = <<>> /\ response = <<>> /\ fs0 = <<>> /\ copied = {}
    /\ listed = {}
TrackerIdle ==
    /\ tracker = <<>> /\ lastCall = "" /\ returned = 0 /\ before = <<>> /\ ncalls = 0
BuildIdle ==
    /\ original = <<>> /\ pattern = <<>> /\ preview = <<>> /\ built = <<>> /\ bpc = "idle"

InitBuild ==
    /\ original \in Str(PathChars, MaxPathLen) \ {<<>>}
    /\ pattern \in Str(PatChars, MaxPatLen)
    /\ preview = <<>>
    /\ built = <<>>
    /\ bpc = "ready"
    /\ ParseIdle /\ FsIdle /\ TrackerIdle

\* POST /api/preview with one file: the first request previews the original id,
\* each later one previews the name the previous preview returned
ApiPreview ==
    /\ bpc = "ready"
    /\ Len(preview) < MaxApply
    /\ LET f == IF preview = <<>> THEN original ELSE preview[Len(preview)]
       IN  /\ preview' = Append(preview, NewName(f, pattern))
           /\ built' = <<FileNameOf(f), build_new_name(FileNameOf(f), pattern)>>
    /\ UNCHANGED <<original, pattern, bpc, parseVars, fsVars, trackerVars>>

NextBuild == ApiPreview

SpecBuild == InitBuild /\ [][NextBuild]_vars

(***************************************************************************)
(* Claims about the name builder, checked under SpecBuild.                 *)
(***************************************************************************)
\* C1: idempotence of the name builder: previewing the name that a preview
\* returned, with the same pattern, returns that name again:
\* build(build(f,p),p) = build(f,p) for every file id f and pattern p.
C1_Idempotent == Len(preview) >= 2 => preview[2] = preview[1]

\* the last directory separator of either kind, "/" or "\"
LastSeparator(f) ==
    IF RFind(f, "/") > RFind(f, "\\") THEN RFind(f, "/") ELSE RFind(f, "\\")

\* C6: the directory prefix is immutable: for a file id containing "/" or "\",
\* the new name is the id's directory prefix (everything up to and including
\* its last separator of either kind) unchanged, followed by the transformed
\* trailing component, whose stem alone decides whether the pattern is present.
C6_PrefixImmutable ==
    (Len(preview) >= 1 /\ (HasChar(original, "/") \/ HasChar(original, "\\")))
        => LET cut == LastSeparator(original)
               prefix == SubSeq(original, 1, cut)
               base == SubSeq(original, cut + 1, Len(original))
           IN  preview[1] = prefix \o build_new_name(base, pattern)

\* the split "at the last '.'", with an empty extension when there is no "."
SplitAtLastDot(n) ==
    IF RFind(n, ".") = 0 THEN <<n, <<>>>>
    ELSE <<SubSeq(n, 1, RFind(n, ".") - 1), SubSeq(n, RFind(n, "."), Len(n))>>

\* the split of the amended claim: at the last ".", unless only "." characters
\* (or nothing) precede it, in which case the extension is empty
SplitAtLastDotAfterName(n) ==
    IF \E k \in 1..(RFind(n, ".") - 1) : n[k] # "."
    THEN SplitAtLastDot(n)
    ELSE <<n, <<>>>>

\* stem + extension when the pattern is in the stem, else stem + pattern + extension
Assemble(split, pat) ==
    IF Contains(split[1], pat) THEN split[1] \o split[2]
    ELSE split[1] \o pat \o split[2]

\* C7 as stated: the builder splits the base filename at its last "." and returns
\* stem + extension if the pattern is in the stem, else stem + pattern + extension.
C7_SplitAtLastDot ==
    built # <<>> => built[2] = Assemble(SplitAtLastDot(built[1]), pattern)

\* C7 as amended: the split is at the last "." only when some character other
\* than "." precedes it; otherwise the whole filename is the stem.  An empty
\* pattern returns the filename unchanged.
C7_SplitRule ==
    built # <<>> =>
        /\ built[2] = Assemble(SplitAtLastDotAfterName(built[1]), pattern)
        /\ (pattern = <<>> => built[2] = built[1])

\* C7's case: a filename starting with "." was given a pattern its stem lacks
C7_Witness ==
    /\ built # <<>>
    /\ built[1] = <<".", "a">>
    /\ pattern = <<"_">>
    /\ built[2] = <<".", "a", "_">>

(***************************************************************************)
(* Characters: case mapping and order (code points).                       *)
(***************************************************************************)
Whitespace == {" ", "\t"}

LowerLetters ==
    <<"a", "b", "c", "d", "e", "f", "g", "h", "i", "j", "k", "l", "m",
      "n", "o", "p", "q", "r", "s", "t", "u", "v", "w", "x", "y", "z">>
UpperLetters ==
    <<"A", "B", "C", "D", "E", "F", "G", "H", "I", "J", "K", "L", "M",
      "N", "O", "P", "Q", "R", "S", "T", "U", "V", "W", "X", "Y", "Z">>

\* the characters of the model in code point order
CodePoints ==
    <<"\t", " ", "'", ",", ".", "/", "0", "1", "2", "3", "4", "5", "6", "7", "8", "9",
      ":", "=">> \o UpperLetters
        \o <<"\\", "_">> \o LowerLetters

Chars == {CodePoints[i] : i \in 1..Len(CodePoints)}

OrdOf == [c \in Chars |-> CHOOSE i \in 1..Len(CodePoints) : CodePoints[i] = c]

UpperOf ==
    [c \in Chars |->
        IF \E i \in 1..Len(LowerLetters) : LowerLetters[i] = c
        THEN UpperLetters[CHOOSE i \in 1..Len(LowerLetters) : LowerLetters[i] = c]
        ELSE c]

LowerOf ==
    [c \in Chars |->
        IF \E i \in 1..Len(UpperLetters) : UpperLetters[i] = c
        THEN LowerLetters[CHOOSE i \in 1..Len(UpperLetters) : UpperLetters[i] = c]
        ELSE c]

Ord(c) == OrdOf[c]
UpperChar(c) == UpperOf[c]
LowerChar(c) == LowerOf[c]

\* str.upper(), str.lower()
Upper(s) == [i \in 1..Len(s) |-> UpperChar(s[i])]
Lower(s) == [i \in 1..Len(s) |-> LowerChar(s[i])]

\* str.strip()
Strip(s) == LStrip(RStrip(s, Whitespace), Whitespace)

\* a <= b for strings (code point order)
RECURSIVE StrLeq(_, _)
StrLeq(a, b) ==
    IF a = <<>> THEN TRUE
    ELSE IF b = <<>> THEN FALSE
    ELSE IF a[1] # b[1] THEN Ord(a[1]) < Ord(b[1])
    ELSE StrLeq(Tail(a), Tail(b))

\* s.split(c)
RECURSIVE Split(_, _)
Split(s, c) ==
    IF ~HasChar(s, c) THEN <<s>>
    ELSE LET i == CHOOSE k \in 1..Len(s) : s[k] = c /\ \A j \in 1..(k - 1) : s[j] # c
         IN  <<SubSeq(s, 1, i - 1)>> \o Split(SubSeq(s, i + 1, Len(s)), c)

Range(seq) == {seq[i] : i \in 1..Len(seq)}

(***************************************************************************)
(* ConventionParser.                                                       *)
(***************************************************************************)
_normalize_section_name(header_line) ==
    LET text == RStrip(Strip(header_line), {":"})
        text_upper == Upper(text)
    IN  IF StartsWith(text_upper, <<"U", "N", "I", "V", "E", "R", "S", "A", "L", " ",
                                    "P", "A", "T", "T", "E", "R", "N", "S">>)
        THEN <<"U", "n", "i", "v", "e", "r", "s", "a", "l">>
        ELSE IF StartsWith(text_upper, <<"P", "L", "A", "Y", "A", " ", "V", "R">>)
                \/ StartsWith(text_upper, <<"P", "L", "A", "Y", "A", " ", "V", "R", " ",
                                            "S", "P", "E", "C", "I", "F", "I", "C">>)
        THEN <<"P", "L", "A", "Y", "'", "A", " ", "V", "R">>
        ELSE IF StartsWith(text_upper, <<"S", "K", "Y", "B", "O", "X", " ", "V", "R">>)
        THEN <<"S", "k", "y", "b", "o", "x", " ", "V", "R", " ",
               "P", "l", "a", "y", "e", "r">>
        ELSE IF StartsWith(text_upper, <<"P", "I", "G", "A", "S", "U", "S">>)
        THEN <<"P", "i", "g", "a", "s", "u", "s", " ", "V", "R">>
        ELSE IF StartsWith(text_upper, <<"R", "A", "D", " ", "T", "V">>)
        THEN <<"R", "a", "d", " ", "T", "V">>
        ELSE IF StartsWith(text_upper, <<"C", "O", "M", "M", "E", "D", "I", "A">>)
        THEN <<"C", "o", "m", "m", "e", "d", "i", "a">>
        ELSE IF StartsWith(text_upper, <<"O", "C", "U", "L", "U", "S">>)
        THEN <<"O", "c", "u", "l", "u", "s", " ", "V", "i", "d", "e", "o", " ",
               "A", "p", "p">>
        ELSE text

\* line 46: a blank line
IsBlank(line) == Strip(line) = <<>>

\* line 50: a section header
IsHeader(line) == EndsWith(Strip(line), <<":">>)

\* lines 60-64: the candidate tokens of a pattern line
TokensOf(line) ==
    IF HasChar(line, "=")
    THEN LET parts == Split(Split(line, "=")[1], ",")
         IN  [i \in 1..Len(parts) |-> Strip(parts[i])]
    ELSE <<Strip(line)>>

\* a slip: the membership test of line 70 is left out
RECURSIVE AddTokens_nocheck(_, _)
AddTokens_nocheck(list, tokens) ==
    IF tokens = <<>> THEN list
    ELSE LET token == Head(tokens)
         IN  IF token # <<>> /\ StartsWith(token, <<"_">>)
             THEN AddTokens_nocheck(Append(list, token), Tail(tokens))
             ELSE AddTokens_nocheck(list, Tail(tokens))

\* lines 66-71: the tokens accepted into the current section's list
RECURSIVE AddTokens(_, _)
AddTokens(list, tokens) ==
    IF tokens = <<>> THEN list
    ELSE LET token == Head(tokens)
         IN  IF token # <<>> /\ StartsWith(token, <<"_">>) /\ token \notin Range(list)
             THEN AddTokens(Append(list, token), Tail(tokens))
             ELSE AddTokens(list, Tail(tokens))

\* sorted(list, key=lambda s: s.lower()): a stable insertion sort
RECURSIVE SortedByLower(_)
SortedByLower(list) ==
    IF list = <<>> THEN <<>>
    ELSE LET init == SortedByLower(SubSeq(list, 1, Len(list) - 1))
             x == list[Len(list)]
             \* x goes after every element whose key is <= its key
             n == Cardinality({i \in 1..Len(init) : StrLeq(Lower(init[i]), Lower(x))})
         IN  SubSeq(init, 1, n) \o <<x>> \o SubSeq(init, n + 1, Len(init))

\* the lines a convention file is made of: a blank line, headers (with an empty
\* name, unknown, with a blank or a second ":" before the terminator, of a known
\* player in two spellings), pattern lines (single tokens differing in case,
\* a padded token, lists with a description, a repeated token, a non-token,
\* a description only, a token followed by the terminator)
Lines ==
    { <<" ">>,
      <<":">>,
      <<"a", ":">>,
      <<"a", " ", ":">>,
      <<"a", ":", ":">>,
      <<"P", "i", "g", "a", "s", "u", "s", ":">>,
      <<"P", "I", "G", "A", "S", "U", "S", " ", "V", "R", " ", ":">>,
      <<"_", "a">>,
      <<"_", "A">>,
      <<" ", "_", "b", " ">>,
      <<"_", "b", ",", " ", "_", "a", " ", "=", " ", "a">>,
      <<"_", "a", ",", "_", "A", ",", "_", "a", "=", "a">>,
      <<"a">>,
      <<"a", ",", " ", "_", "a">>,
      <<"=", "_", "a">>,
      <<"_", "a", ":">> }

InitParse ==
    /\ conventions = <<>>
    /\ current_section = <<>>
    /\ nread = 0
    /\ lastHeader = <<>>
    /\ expected = {}
    /\ dupOffered = FALSE
    /\ ppc = "start"
    /\ table = <<>>
    /\ BuildIdle /\ FsIdle /\ TrackerIdle

\* lines 36-37: the convention file does not exist
ParseAbsent ==
    /\ ppc = "start"
    /\ ppc' = "done"
    /\ table' = <<>>
    /\ UNCHANGED <<conventions, current_section, nread, lastHeader, expected, dupOffered>>
    /\ UNCHANGED <<buildVars, fsVars, trackerVars>>

\* lines 39-43: the file is opened
ParseOpen ==
    /\ ppc = "start"
    /\ ppc' = "loop"
    /\ UNCHANGED <<conventions, current_section, nread, lastHeader, expected, dupOffered,
                   table>>
    /\ UNCHANGED <<buildVars, fsVars, trackerVars>>

\* lines 45-71: one iteration of the loop, on the next line of the file
ParseLine(line) ==
    /\ ppc = "loop"
    /\ nread < MaxLines
    /\ nread' = nread + 1
    /\ IF IsBlank(line)
       THEN UNCHANGED <<conventions, current_section, lastHeader, expected, dupOffered>>
       ELSE IF IsHeader(line)
       THEN LET name == _normalize_section_name(line)
            IN  /\ current_section' = name
                /\ conventions' = [k \in DOMAIN conventions \cup {name} |->
                                      IF k \in DOMAIN conventions THEN conventions[k]
                                      ELSE <<>>]
                /\ lastHeader' = line
                /\ UNCHANGED <<expected, dupOffered>>
       ELSE /\ expected' =
                  IF lastHeader = <<>> THEN expected
                  ELSE expected \cup
                       { <<_normalize_section_name(lastHeader), t>> :
                           t \in {u \in Range(TokensOf(line)) : StartsWith(u, <<"_">>)} }
            /\ IF current_section = <<>>
               THEN UNCHANGED <<conventions, dupOffered>>
               ELSE /\ conventions' = [conventions EXCEPT ![current_section] =
                                          AddTokens(@, TokensOf(line))]
                    /\ dupOffered' =
                          (\/ dupOffered
                           \/ Len(conventions[current_section])
                                + Len(SelectSeq(TokensOf(line),
                                                LAMBDA t : StartsWith(t, <<"_">>)))
                                > Len(conventions'[current_section]))
            /\ UNCHANGED <<current_section, lastHeader>>
    /\ UNCHANGED <<ppc, table>>
    /\ UNCHANGED <<buildVars, fsVars, trackerVars>>

\* lines 73-77: the end of the file: every list is sorted and the table returned
ParseReturn ==
    /\ ppc = "loop"
    /\ ppc' = "done"
    /\ table' = [k \in DOMAIN conventions |-> SortedByLower(conventions[k])]
    /\ UNCHANGED <<conventions, current_section, nread, lastHeader, expected, dupOffered>>
    /\ UNCHANGED <<buildVars, fsVars, trackerVars>>

NextParse ==
    \/ ParseAbsent
    \/ ParseOpen
    \/ \E line \in Lines : ParseLine(line)
    \/ ParseReturn

SpecParse == InitParse /\ [][NextParse]_vars

(***************************************************************************)
(* Claims about the convention parser, checked under SpecParse.            *)
(***************************************************************************)
NoDuplicates(list) ==
    \A i, j \in 1..Len(list) : i # j => list[i] # list[j]

\* C4: no duplicates: every section of the returned table holds each token at
\* most once, also when a token reappears on several lines and when several
\* header lines normalize to the same canonical name.
C4_NoDuplicates ==
    ppc = "done" => \A k \in DOMAIN table : NoDuplicates(table[k])

\* C4's case: the table was returned after a token had been offered again to a
\* section that already held it, the section having been reopened by a header
\* line spelled differently from the one that created it
C4_Witness ==
    /\ ppc = "done"
    /\ dupOffered
    /\ lastHeader = <<"P", "I", "G", "A", "S", "U", "S", " ", "V", "R", " ", ":">>
    /\ table = (<<"P", "i", "g", "a", "s", "u", "s", " ", "V", "R">> :> <<<<"_", "a">>>>)

\* the <<section, token>> pairs of a table
TablePairs(t) == UNION {{<<k, t[k][i]>> : i \in 1..Len(t[k])} : k \in DOMAIN t}

\* C5: a pattern line is dropped exactly when no header line precedes it: the
\* returned table holds exactly the "_"-prefixed tokens of the pattern lines
\* that follow some header, each under the canonical name of the most recent
\* header before its line.
C5_DroppedOnlyBeforeHeader ==
    ppc = "done" => TablePairs(table) = expected

\* the ordered prefix rules of the header canonicalization
PrefixRules ==
    << <<<<"U", "N", "I", "V", "E", "R", "S", "A", "L", " ",
           "P", "A", "T", "T", "E", "R", "N", "S">>,
         <<"U", "n", "i", "v", "e", "r", "s", "a", "l">>>>,
       <<<<"P", "L", "A", "Y", "A", " ", "V", "R">>,
         <<"P", "L", "A", "Y", "'", "A", " ", "V", "R">>>>,
       <<<<"S", "K", "Y", "B", "O", "X", " ", "V", "R">>,
         <<"S", "k", "y", "b", "o", "x", " ", "V", "R", " ", "P", "l", "a", "y", "e", "r">>>>,
       <<<<"P", "I", "G", "A", "S", "U", "S">>,
         <<"P", "i", "g", "a", "s", "u", "s", " ", "V", "R">>>>,
       <<<<"R", "A", "D", " ", "T", "V">>, <<"R", "a", "d", " ", "T", "V">>>>,
       <<<<"C", "O", "M", "M", "E", "D", "I", "A">>,
         <<"C", "o", "m", "m", "e", "d", "i", "a">>>>,
       <<<<"O", "C", "U", "L", "U", "S">>,
         <<"O", "c", "u", "l", "u", "s", " ", "V", "i", "d", "e", "o", " ", "A", "p", "p">>>> >>

\* the canonical name the claim gives a header line: the ":" terminator and the
\* surrounding whitespace stripped, then the first matching prefix rule, else
\* the trimmed text itself
CanonicalName(header_line) ==
    LET text == Strip(RStrip(Strip(header_line), {":"}))
        hits == {i \in 1..Len(PrefixRules) : StartsWith(Upper(text), PrefixRules[i][1])}
    IN  IF hits = {} THEN text
        ELSE PrefixRules[CHOOSE i \in hits : \A j \in hits : i <= j][2]

\* C8: header canonicalization: after a header line, the current section is the
\* line with its ":" terminator and surrounding whitespace stripped, mapped by
\* the first matching prefix rule, and otherwise exactly that trimmed text (no
\* leading or trailing whitespace, nothing else removed).
C8_Canonical ==
    lastHeader # <<>> => current_section = CanonicalName(lastHeader)

(***************************************************************************)
(* More of os.path (posixpath).                                            *)
(***************************************************************************)
\* "/".join(comps)
RECURSIVE JoinWith(_, _)
JoinWith(comps, sep) ==
    IF comps = <<>> THEN <<>>
    ELSE IF Len(comps) = 1 THEN comps[1]
    ELSE comps[1] \o sep \o JoinWith(Tail(comps), sep)

\* the loop of os.path.normpath over the components of the path
RECURSIVE NormComps(_, _, _)
NormComps(comps, new_comps, initial_slashes) ==
    IF comps = <<>> THEN new_comps
    ELSE LET comp == Head(comps)
         IN  IF comp \in {<<>>, <<".">>}
             THEN NormComps(Tail(comps), new_comps, initial_slashes)
             ELSE IF \/ comp # <<".", ".">>
                     \/ (initial_slashes = 0 /\ new_comps = <<>>)
                     \/ (new_comps # <<>> /\ new_comps[Len(new_comps)] = <<".", ".">>)
             THEN NormComps(Tail(comps), Append(new_comps, comp), initial_slashes)
             ELSE IF new_comps # <<>>
             THEN NormComps(Tail(comps), SubSeq(new_comps, 1, Len(new_comps) - 1),
                            initial_slashes)
             ELSE NormComps(Tail(comps), new_comps, initial_slashes)

\* os.path.normpath
normpath(path) ==
    IF path = <<>> THEN <<".">>
    ELSE LET initial_slashes ==
                 IF ~StartsWith(path, <<"/">>) THEN 0
                 ELSE IF StartsWith(path, <<"/", "/">>) /\ ~StartsWith(path, <<"/", "/", "/">>)
                      THEN 2 ELSE 1
             comps == NormComps(Split(path, "/"), <<>>, initial_slashes)
             joined == [i \in 1..initial_slashes |-> "/"] \o JoinWith(comps, <<"/">>)
         IN  IF joined = <<>> THEN <<".">> ELSE joined

\* os.path.relpath(path, start), both absolute
relpath(path, start) ==
    LET start_list == SelectSeq(Split(normpath(start), "/"), LAMBDA x : x # <<>>)
        path_list == SelectSeq(Split(normpath(path), "/"), LAMBDA x : x # <<>>)
        common == {n \in 0..Len(start_list) :
                     n <= Len(path_list) /\ SubSeq(start_list, 1, n) = SubSeq(path_list, 1, n)}
        i == CHOOSE n \in common : \A m \in common : m <= n
        rel_list == [k \in 1..(Len(start_list) - i) |-> <<".", ".">>]
                        \o SubSeq(path_list, i + 1, Len(path_list))
    IN  IF rel_list = <<>> THEN <<".">> ELSE JoinWith(rel_list, <<"/">>)

(***************************************************************************)
(* The file system.  A node is named by the sequence of names leading to   *)
(* it from the root; the root is <<>>.  There are no symbolic links.       *)
(***************************************************************************)
Root == <<>>

\* "dir", "file", or "file000" (a regular file the process may not read); "none"
Kind(fsys, at) ==
    IF at = Root THEN "dir" ELSE IF at \in DOMAIN fsys THEN fsys[at] ELSE "none"

Parent(at) == IF at = Root THEN Root ELSE SubSeq(at, 1, Len(at) - 1)

\* path resolution, name by name: "" and "." stay, ".." goes up, and every
\* name but the last must be a directory
RECURSIVE Walk(_, _, _)
Walk(fsys, names, at) ==
    IF names = <<>> THEN [ok |-> TRUE, at |-> at]
    ELSE IF Kind(fsys, at) # "dir" THEN [ok |-> FALSE, at |-> at]
    ELSE LET name == Head(names)
         IN  IF name \in {<<>>, <<".">>} THEN Walk(fsys, Tail(names), at)
             ELSE IF name = <<".", ".">> THEN Walk(fsys, Tail(names), Parent(at))
             ELSE IF Append(at, name) \in DOMAIN fsys
             THEN Walk(fsys, Tail(names), Append(at, name))
             ELSE [ok |-> FALSE, at |-> at]

\* where an absolute path leads
Resolve(fsys, path) == Walk(fsys, Split(path, "/"), Root)

\* os.path.isfile, os.path.isdir
isfile(fsys, path) ==
    Resolve(fsys, path).ok /\ Kind(fsys, Resolve(fsys, path).at) \in {"file", "file000"}
isdir(fsys, path) ==
    Resolve(fsys, path).ok /\ Kind(fsys, Resolve(fsys, path).at) = "dir"

WithNode(fsys, at, kind) ==
    [n \in DOMAIN fsys \cup {at} |-> IF n = at THEN kind ELSE fsys[n]]

\* os.makedirs(path, exist_ok=True): missing directories are created along the
\* path; a regular file in the way raises
RECURSIVE MakeAlong(_, _, _)
MakeAlong(fsys, names, at) ==
    IF Kind(fsys, at) # "dir" THEN [ok |-> FALSE, fs |-> fsys]
    ELSE IF names = <<>> THEN [ok |-> TRUE, fs |-> fsys]
    ELSE LET name == Head(names)
         IN  IF name \in {<<>>, <<".">>} THEN MakeAlong(fsys, Tail(names), at)
             ELSE IF name = <<".", ".">> THEN MakeAlong(fsys, Tail(names), Parent(at))
             ELSE IF Append(at, name) \in DOMAIN fsys
             THEN MakeAlong(fsys, Tail(names), Append(at, name))
             ELSE MakeAlong(WithNode(fsys, Append(at, name), "dir"), Tail(names),
                            Append(at, name))

makedirs(fsys, path) == MakeAlong(fsys, Split(path, "/"), Root)

\* shutil.copy2(src, dst), src a regular file: a destination that is a
\* directory receives the file under the source's base name; the copy raises
\* when source and destination are the same file, when the source may not be
\* read, and when the destination cannot be opened for writing
copy2(fsys, src, dst) ==
    LET target == IF isdir(fsys, dst) THEN join(dst, basename(src)) ELSE dst
        from == Resolve(fsys, src).at
        into == Resolve(fsys, dirname(target))
        name == basename(target)
        to == Append(into.at, name)
    IN  IF Resolve(fsys, target).ok /\ Resolve(fsys, target).at = from
        THEN [ok |-> FALSE, fs |-> fsys]                  \* SameFileError
        ELSE IF Kind(fsys, from) = "file000"
        THEN [ok |-> FALSE, fs |-> fsys]                  \* PermissionError
        ELSE IF ~into.ok \/ Kind(fsys, into.at) # "dir" \/ name \in {<<>>, <<".">>, <<".", ".">>}
        THEN [ok |-> FALSE, fs |-> fsys]                  \* FileNotFoundError, ...
        ELSE IF Kind(fsys, to) = "dir"
        THEN [ok |-> FALSE, fs |-> fsys]                  \* IsADirectoryError
        ELSE IF Kind(fsys, to) = "file000"
        THEN [ok |-> FALSE, fs |-> fsys]                  \* PermissionError
        ELSE [ok |-> TRUE, fs |-> WithNode(fsys, to, "file")]

(***************************************************************************)
(* The service: directories, requests, handlers.                           *)
(***************************************************************************)
BASE_DIR == <<"/", "b">>
RAW_DIR == join(BASE_DIR, <<"r", "a", "w">>)
FIXED_DIR == join(BASE_DIR, <<"f", "i", "x", "e", "d", "_", "m", "e", "t", "a", "d", "a", "t", "a">>)

\* ensure_dirs
ensure_dirs(fsys) == makedirs(makedirs(fsys, RAW_DIR).fs, FIXED_DIR).fs

\* line 226: the source of file id f
SourceOf(f) == join(RAW_DIR, f)

\* lines 224-250: the loop of api_export over the ids left, given the file
\* system, the results and the copies made so far.  An exception of makedirs or
\* copy2 is not caught: it ends the handler, and the response is a 500.
RECURSIVE ExportLoop(_, _, _, _, _)
ExportLoop(files, pat, fsys, results, done) ==
    IF files = <<>>
    THEN [fs |-> fsys, response |-> [status |-> 200, results |-> results], copied |-> done]
    ELSE LET f == Head(files)
             src == SourceOf(f)
         IN  IF ~isfile(fsys, src)
             THEN ExportLoop(Tail(files), pat, fsys,
                             Append(results, [file |-> f, status |-> "missing"]), done)
             ELSE LET new_name == NewName(f, pat)
                      dst == join(FIXED_DIR, new_name)
                      made == makedirs(fsys, dirname(dst))
                      copy == copy2(made.fs, src, dst)
                  IN  IF ~made.ok
                      THEN [fs |-> made.fs, response |-> [status |-> 500], copied |-> done]
                      ELSE IF ~copy.ok
                      THEN [fs |-> copy.fs, response |-> [status |-> 500], copied |-> done]
                      ELSE ExportLoop(Tail(files), pat, copy.fs,
                                      Append(results,
                                             [file |-> f,
                                              copied_to |-> relpath(dst, BASE_DIR),
                                              status |-> "ok"]),
                                      done \cup {Resolve(fsys, src).at})

\* a slip: only an absolute subdir is refused
Sanitize_noparent(subdir) ==
    IF StartsWith(normpath(subdir), <<"/">>) THEN <<>> ELSE normpath(subdir)

\* lines 173-175: the sanitized subdir (subdir is not empty)
Sanitize(subdir) ==
    IF StartsWith(normpath(subdir), <<".", ".">>) \/ StartsWith(normpath(subdir), <<"/">>)
    THEN <<>>
    ELSE normpath(subdir)

\* lines 168-179: <<subdir, target_dir>> of a request
TargetOf(raw_subdir) ==
    LET subdir == Strip(raw_subdir)
    IN  IF subdir # <<>>
        THEN <<Sanitize(subdir), join(RAW_DIR, Sanitize(subdir))>>
        ELSE <<<<>>, RAW_DIR>>

\* sorted(names)
RECURSIVE Sorted(_)
Sorted(names) ==
    IF names = {} THEN <<>>
    ELSE LET least == CHOOSE n \in names : \A m \in names : StrLeq(n, m)
         IN  <<least>> \o Sorted(names \ {least})

IsMp4(name) == EndsWith(Lower(name), <<".", "m", "p", "4">>)

\* get_directory_contents: the folders and the .mp4 files of a directory
get_directory_contents(fsys, directory_path) ==
    IF ~isdir(fsys, directory_path) THEN [folders |-> <<>>, files |-> <<>>]
    ELSE LET at == Resolve(fsys, directory_path).at
             items == {m \in DOMAIN fsys : Parent(m) = at}
         IN  [folders |-> Sorted({m[Len(m)] : m \in {i \in items : fsys[i] = "dir"}}),
              files |-> Sorted({m[Len(m)] : m \in {i \in items : fsys[i] # "dir"
                                                              /\ IsMp4(i[Len(i)])}})]

\* find_all_mp4_files: the .mp4 files below a directory, relative to it
find_all_mp4_files(fsys, directory_path) ==
    IF ~isdir(fsys, directory_path) THEN <<>>
    ELSE LET at == Resolve(fsys, directory_path).at
             below == {m \in DOMAIN fsys : /\ Len(m) > Len(at)
                                           /\ SubSeq(m, 1, Len(at)) = at
                                           /\ fsys[m] # "dir"
                                           /\ IsMp4(m[Len(m)])}
         IN  Sorted({JoinWith(SubSeq(m, Len(at) + 1, Len(m)), <<"/">>) : m \in below})

\* names of the model's files and directories
App == <<"a", "p", "p", ".", "p", "y">>
Raw == <<"r", "a", "w">>
Fixed == <<"f", "i", "x", "e", "d", "_", "m", "e", "t", "a", "d", "a", "t", "a">>
Clip == <<"a", ".", "m", "p", "4">>
Sub == <<"s">>

FsOf(nodes) == [at \in {n[1] : n \in nodes} |-> (CHOOSE n \in nodes : n[1] = at)[2]]

\* the file systems a request may find: the program file beside raw/ and
\* fixed_metadata/, a folder raw/s, and optionally raw/a.mp4 (readable or not),
\* raw/s/a.mp4, and an entry fixed_metadata/s (a folder or a regular file)
InitialFileSystems ==
    { FsOf({ <<<<<<"b">>>>, "dir">>,
             <<<<<<"b">>, App>>, "file">>,
             <<<<<<"b">>, Raw>>, "dir">>,
             <<<<<<"b">>, Fixed>>, "dir">>,
             <<<<<<"b">>, Raw, Sub>>, "dir">> }
           \cup {<<<<<<"b">>, Raw, Clip>>, k>> : k \in clip}
           \cup {<<<<<<"b">>, Raw, Sub, Clip>>, k>> : k \in nested}
           \cup {<<<<<<"b">>, Fixed, Sub>>, k>> : k \in out}) :
        clip \in {{}, {"file"}, {"file000"}},
        nested \in {{}, {"file"}},
        out \in {{}, {"dir"}, {"file"}} }

\* the file ids of export requests: a file of raw/, a nested one, a missing
\* one, a folder, ids with ".." leading inside and outside raw/, an absolute one
FileIds ==
    { Clip,
      Sub \o <<"/">> \o Clip,
      <<"m", ".", "m", "p", "4">>,
      Sub,
      Sub \o <<"/", ".", ".", "/">> \o Clip,
      <<".", ".", "/">> \o App,
      BASE_DIR \o <<"/">> \o App }

ExportPatterns == {<<"_", "L", "R">>, <<>>}

SubdirChars == {"s", ".", "/", " "}

\* the file systems of the browsing requests: fixed_metadata/ is empty
BrowseFileSystems ==
    {fsys \in InitialFileSystems : <<<<"b">>, Fixed, Sub>> \notin DOMAIN fsys}

InitExport ==
    /\ fs \in InitialFileSystems
    /\ request = <<>>
    /\ response = <<>>
    /\ fs0 = <<>>
    /\ copied = {}
    /\ listed = {}
    /\ BuildIdle /\ ParseIdle /\ TrackerIdle

\* POST /api/export, with any list of file ids and any pattern
ApiExport ==
    /\ request = <<>>
    /\ \E files \in Str(FileIds, MaxFiles), pat \in ExportPatterns :
          LET run == ExportLoop(files, pat, ensure_dirs(fs), <<>>, {})
          IN  /\ fs' = run.fs
              /\ response' = run.response
              /\ copied' = run.copied
              /\ request' = [route |-> "export", files |-> files, pattern |-> pat]
    /\ fs0' = ensure_dirs(fs)
    /\ UNCHANGED listed
    /\ UNCHANGED <<buildVars, parseVars, trackerVars>>

\* GET /api/files, with any subdir
ApiFiles ==
    /\ request = <<>>
    /\ \E subdir \in Str(SubdirChars, MaxSubdirLen) :
          LET fsys == ensure_dirs(fs)
              target == TargetOf(subdir)
              contents == get_directory_contents(fsys, target[2])
          IN  /\ response' = [status |-> 200,
                              raw_dir |-> relpath(RAW_DIR, BASE_DIR),
                              current_dir |-> target[1],
                              folders |-> contents.folders,
                              files |-> contents.files,
                              all_mp4_files |-> find_all_mp4_files(fsys, RAW_DIR)]
              /\ listed' = IF isdir(fsys, target[2])
                           THEN {Resolve(fsys, target[2]).at} ELSE {}
              /\ request' = [route |-> "files", subdir |-> subdir]
    /\ fs' = ensure_dirs(fs)
    /\ fs0' = ensure_dirs(fs)
    /\ UNCHANGED copied
    /\ UNCHANGED <<buildVars, parseVars, trackerVars>>

NextExport == ApiExport

SpecExport == InitExport /\ [][NextExport]_vars

InitBrowse ==
    /\ fs \in BrowseFileSystems
    /\ request = <<>>
    /\ response = <<>>
    /\ fs0 = <<>>
    /\ copied = {}
    /\ listed = {}
    /\ BuildIdle /\ ParseIdle /\ TrackerIdle

NextBrowse == ApiFiles

SpecBrowse == InitBrowse /\ [][NextBrowse]_vars

(***************************************************************************)
(* Claims about export (SpecExport) and browsing (SpecBrowse).              *)
(***************************************************************************)
\* where raw/ is
RawAt == <<<<"b">>, Raw>>

Below(at, dir) == Len(at) > Len(dir) /\ SubSeq(at, 1, Len(dir)) = dir

\* file id f resolves to an existing regular file located under raw/
ResolvesUnderRaw(fsys, f) ==
    /\ isfile(fsys, join(RAW_DIR, f))
    /\ Below(Resolve(fsys, join(RAW_DIR, f)).at, RawAt)

\* C2: export never copies a file from outside the root raw directory: every
\* source copied is located under raw/, and an id that does not resolve to an
\* existing regular file under raw/ has a result entry with status "missing".
C2_NoCopyFromOutside ==
    (request # <<>> /\ request.route = "export") =>
        /\ \A at \in copied : Below(at, RawAt)
        /\ response.status = 200 =>
              \A i \in 1..Len(response.results) :
                  ~ResolvesUnderRaw(fs0, response.results[i].file)
                      => response.results[i].status = "missing"

\* C3: export processes a batch item by item without aborting: the response
\* holds a result collection with exactly one entry per id, in input order, and
\* an id with no regular file on disk has status "missing"; no fault ends the
\* batch.
C3_OneEntryPerId ==
    (request # <<>> /\ request.route = "export") =>
        /\ response.status = 200
        /\ Len(response.results) = Len(request.files)
        /\ \A i \in 1..Len(request.files) :
              /\ response.results[i].file = request.files[i]
              /\ ~isfile(fs0, join(RAW_DIR, request.files[i]))
                    => response.results[i].status = "missing"

\* C9: directory browsing cannot escape the root: whatever the subdir of the
\* request, the directory api_files lists is raw/ itself or a directory inside
\* raw/, and the request is answered.
C9_BrowseInsideRoot ==
    (request # <<>> /\ request.route = "files") =>
        /\ response.status = 200
        /\ \A at \in listed : at = RawAt \/ Below(at, RawAt)

\* C9's case: a subdir climbing out of raw/ was asked for, and raw/ was listed
C9_Witness ==
    /\ request # <<>>
    /\ request.route = "files"
    /\ request.subdir = <<".", ".", "/", "s">>
    /\ response.current_dir = <<>>
    /\ listed = {RawAt}

(***************************************************************************)
(* The test tracker (test_manager.py).  test_tracker.json holds numbers    *)
(* and strings, which json.dump and json.load give back as they were.  The *)
(* clock is outside the model: every date is Today.                        *)
(***************************************************************************)
Today == "2025-01-01"

\* load_test_tracker
load_test_tracker(file) ==
    IF file = <<>>
    THEN [current_test_number |-> 1, tests |-> <<>>, last_updated |-> Today]
    ELSE file

\* save_test_tracker: the contents written
save_test_tracker(data) == [data EXCEPT !.last_updated = Today]

Max(numbers) == CHOOSE n \in numbers : \A m \in numbers : m <= n

\* lines 116-120 (and 40-45): the next number, from the tests recorded
NextNumber(data) ==
    IF data.tests # <<>>
    THEN Max({data.tests[i].test_number : i \in 1..Len(data.tests)}) + 1
    ELSE 1

\* a slip: the stored next number is left as it was
add_test_stale(data, description, status, notes, folder) ==
    [data EXCEPT !.tests = Append(@, [test_number |-> NextNumber(data),
                                      description |-> description,
                                      date |-> Today,
                                      status |-> status,
                                      notes |-> notes,
                                      folder |-> folder])]

\* lines 39-57 of add_test: the data after the new test is recorded
add_test(data, description, status, notes, folder) ==
    [data EXCEPT !.tests = Append(@, [test_number |-> NextNumber(data),
                                      description |-> description,
                                      date |-> Today,
                                      status |-> status,
                                      notes |-> notes,
                                      folder |-> folder]),
                 !.current_test_number = NextNumber(data) + 1]

\* lines 67-73 of update_test_status: the first test with that number, updated
update_test_status(data, test_number, status, notes, folder) ==
    LET hits == {i \in 1..Len(data.tests) : data.tests[i].test_number = test_number}
        i == CHOOSE k \in hits : \A j \in hits : k <= j
    IN  [data EXCEPT !.tests[i] =
            [@ EXCEPT !.status = status,
                      !.notes = IF notes # "" THEN notes ELSE @,
                      !.folder = IF folder # "" THEN folder ELSE @]]

Numbers(file) ==
    [i \in 1..Len(load_test_tracker(file).tests) |->
        load_test_tracker(file).tests[i].test_number]

Statuses == {"pending", "completed"}
Notes == {"", "n"}
Folders == {"", "f"}

InitTracker ==
    /\ tracker = <<>>
    /\ lastCall = ""
    /\ returned = 0
    /\ before = <<>>
    /\ ncalls = 0
    /\ BuildIdle /\ ParseIdle /\ FsIdle

\* add_test(description, status, notes, folder)
AddTest ==
    /\ ncalls < MaxCalls
    /\ \E status \in Statuses, notes \in Notes, folder \in Folders :
          LET data == load_test_tracker(tracker)
          IN  /\ tracker' = save_test_tracker(add_test(data, "d", status, notes, folder))
              /\ returned' = NextNumber(data)
    /\ lastCall' = "add"
    /\ before' = Numbers(tracker)
    /\ ncalls' = ncalls + 1
    /\ UNCHANGED <<buildVars, parseVars, fsVars>>

\* update_test_status(test_number, status, notes, folder)
UpdateTestStatus ==
    /\ ncalls < MaxCalls
    /\ \E test_number \in 0..(MaxCalls + 1), status \in Statuses, notes \in Notes,
          folder \in Folders :
          LET data == load_test_tracker(tracker)
          IN  IF \E i \in 1..Len(data.tests) : data.tests[i].test_number = test_number
              THEN /\ tracker' = save_test_tracker(
                                    update_test_status(data, test_number, status, notes,
                                                       folder))
                   /\ returned' = TRUE
              ELSE /\ UNCHANGED tracker
                   /\ returned' = FALSE
    /\ lastCall' = "update"
    /\ before' = Numbers(tracker)
    /\ ncalls' = ncalls + 1
    /\ UNCHANGED <<buildVars, parseVars, fsVars>>

\* get_next_test_number()
GetNextTestNumber ==
    /\ ncalls < MaxCalls
    /\ returned' = NextNumber(load_test_tracker(tracker))
    /\ lastCall' = "next"
    /\ before' = Numbers(tracker)
    /\ ncalls' = ncalls + 1
    /\ UNCHANGED tracker
    /\ UNCHANGED <<buildVars, parseVars, fsVars>>

NextTracker == AddTest \/ UpdateTestStatus \/ GetNextTestNumber

SpecTracker == InitTracker /\ [][NextTracker]_vars

(***************************************************************************)
(* Claim about the test tracker, checked under SpecTracker.                *)
(***************************************************************************)
\* C10: the numbering invariant of the test tracker: the recorded test numbers
\* are strictly increasing in list order (so pairwise distinct); add_test
\* returns the previous maximum + 1 (1 for the first test) and records it;
\* update_test_status changes neither a test number nor the number of tests;
\* and the stored current_test_number is what get_next_test_number returns.
C10_Numbering ==
    /\ \A i, j \in 1..Len(Numbers(tracker)) :
          i < j => Numbers(tracker)[i] < Numbers(tracker)[j]
    /\ lastCall = "add" =>
          /\ returned = IF before = <<>> THEN 1
                        ELSE Max({before[i] : i \in 1..Len(before)}) + 1
          /\ Numbers(tracker) = Append(before, returned)
    /\ lastCall = "update" => Numbers(tracker) = before
    /\ lastCall = "next" => returned = load_test_tracker(tracker).current_test_number
    /\ load_test_tracker(tracker).current_test_number
          = (IF Numbers(tracker) = <<>> THEN 1
             ELSE Max({Numbers(tracker)[i] : i \in 1..Len(Numbers(tracker))}) + 1)

\* C10's case: after two tests were added, the first one was updated
C10_Witness ==
    /\ lastCall = "update"
    /\ returned = TRUE
    /\ Numbers(tracker) = <<1, 2>>
    /\ tracker.tests[1].status = "completed"
    /\ tracker.tests[1].notes = "n"
    /\ tracker.current_test_number = 3

====
